---- MODULE Spec2Model ----
(***************************************************************************)
(* Image-hosting backend: the upload / delete / read orchestration of      *)
(* ImageService over the object storage helper (S3Helper), the image       *)
(* repository and the analysis strategies.                                 *)
(*                                                                         *)
(* Python values are modelled as tagged records: None, str and bytes (a    *)
(* str is the sequence of the pieces an f-string joins, so that "message   *)
(* m contains message e" is "e is a contiguous part of m"); a dict is a    *)
(* record whose DOMAIN is its key set; the outcome of a call is either     *)
(* "return" with a value or "raise" with str(exception).                   *)
(*                                                                         *)
(* What the environment decides is drawn afresh at every call: whether a   *)
(* boto3 call succeeds, raises ClientError or raises something else;       *)
(* whether db.session.commit() commits or raises; what the analysis        *)
(* service answers. Queries (Image.query...) and the construction of       *)
(* S3Helper from a complete configuration are taken to succeed.            *)
(* Requests are served one at a time: a call is made, its result is        *)
(* handed back (Respond), then the next call is made.                      *)
(* On the HTTP path (SpecHttp) users register and log in, and the image    *)
(* routes hand the identity of the request's token to the same             *)
(* ImageService calls; a user id is then a typed value, the int of the     *)
(* table or the str the token carries.                                     *)
(* uuid.uuid4() gives a value it has not given before: the values are      *)
(* numbered in the order they are drawn (the chance of 2^-122 that two     *)
(* draws coincide is outside this model).                                  *)
(***************************************************************************)
EXTENDS Integers, Sequences, FiniteSets, TLC

VARIABLES
    images,   \* rows of table "images" (the persistence store)
    nextId,   \* next primary key the database hands out
    bucket,   \* keys of the objects present in the storage bucket
    last,     \* the ImageService call whose result is being returned: inputs,
              \* steps, outcome (NoCall between two requests)
    sres,     \* the last completed AnalysisStrategy.analyze call
    ares,     \* a call of the analysis client: its inputs, then its result
    keys,     \* the storage keys upload_image calls have computed, in call order
    users,    \* rows of table "users"
    http      \* the HTTP request being answered: route, inputs, response
              \* (NoRequest between two requests)

vars == <<images, nextId, bucket, last, sres, ares, keys, users, http>>

\* ------------------------------------------------------------------ bounds
MaxImages == 2
\* upload_image calls made
MaxUploads == 2
\* provider concept lists: every order of up to MaxPermuted concepts, and
\* longer lists of up to MaxConcepts concepts in two orders
MaxPermuted == 3
MaxConcepts == 6

\* ----------------------------------------------------------- Python values
None == [t |-> "None"]
Str(toks) == [t |-> "str", s |-> toks]
Bytes(bs) == [t |-> "bytes", s |-> bs]
\* an int; IntValue(1) and Str(<<1>>), the str "1", are different values
IntValue(n) == [t |-> "int", n |-> n]
\* str(n): the decimal text of n, written as the one piece n
StrOfInt(n) == Str(<<n>>)
\* The user a user_id value names, whether it is the int or its decimal text:
\* what "{user_id}" prints in an f-string, what the Integer column user_id
\* stores and gives back, and what the database compares in filter_by.
UserOf(user_id) == IF user_id.t = "int" THEN user_id.n ELSE user_id.s[1]

\* bool(v) as `if v:` / `not v` evaluate it
Truthy(v) == IF v.t = "None" THEN FALSE ELSE Len(v.s) > 0

\* dict.get(k, default)
Get(d, k, default) == IF k \in DOMAIN d THEN d[k] ELSE default

Return(v) == [kind |-> "return", val |-> v]
Raise(msg) == [kind |-> "raise", msg |-> msg]

\* e is a contiguous part of message m
Contains(m, e) ==
    \E i \in 0 .. (Len(m) - Len(e)) : \A j \in 1 .. Len(e) : m[i + j] = e[j]

\* ------------------------------------------------- analysis provider client
CreateFallbackResponse(error_message) ==
    [description |-> None, concepts |-> <<>>,
     error |-> Str(error_message), using_fallback |-> TRUE]

\* An analysis service, as the strategies see it through analyze_image, is the
\* set of outcomes one call can have. ProviderOutcomes: the shapes
\* ImageAnalysisService returns (a caption, an empty caption, no description,
\* a fallback response) and those an injected service can add (an explicit
\* using_fallback flag, a fallback that still carries a description, an
\* exception).
ProviderOutcomes ==
    { Return([description |-> Str(<<"a cat">>), concepts |-> <<>>]),
      Return([description |-> Str(<<"a dog">>), concepts |-> <<>>,
              using_fallback |-> FALSE]),
      Return([description |-> Str(<<>>), concepts |-> <<>>]),
      Return([description |-> None, concepts |-> <<>>]),
      Return(CreateFallbackResponse(<<"Image analysis service is not available">>)),
      Return([description |-> Str(<<"a cat">>), concepts |-> <<>>,
              error |-> Str(<<"stale">>), using_fallback |-> TRUE]),
      Raise(<<"timeout">>),
      Raise(<<"connection reset">>) }

\* One provider call: how the image was passed, and what came back.
Call(analysis_service, by) == { [by |-> by, out |-> o] : o \in analysis_service }

\* One run of a strategy: the provider calls it made, in order, and its outcome.
Run(calls, out) == [calls |-> calls, out |-> out]

\* ------------------------------------------------------ analysis strategies
\* Faulty variant of the URL-only strategy: without a URL it turns to the
\* bytes.
UrlAnalyzeOrBytes(analysis_service, image_bytes, image_url) ==
    IF ~Truthy(image_url)
    THEN IF Truthy(image_bytes)
         THEN { Run(<<c>>, c.out) : c \in Call(analysis_service, "bytes") }
         ELSE { Run(<<>>, Return([using_fallback |-> TRUE,
                                  error |-> Str(<<"No URL provided">>)])) }
    ELSE { Run(<<c>>, c.out) : c \in Call(analysis_service, "url") }

UrlAnalyze(analysis_service, image_bytes, image_url) ==
    IF ~Truthy(image_url)
    THEN { Run(<<>>, Return([using_fallback |-> TRUE,
                             error |-> Str(<<"No URL provided">>)])) }
    ELSE { Run(<<c>>, c.out) : c \in Call(analysis_service, "url") }

BytesAnalyze(analysis_service, image_bytes, image_url) ==
    IF ~Truthy(image_bytes)
    THEN { Run(<<>>, Return([using_fallback |-> TRUE,
                             error |-> Str(<<"No image data provided">>)])) }
    ELSE { Run(<<c>>, c.out) : c \in Call(analysis_service, "bytes") }

\* Faulty variant of the message: the URL call's error is left out.
BothFailedNoUrlError(e, bytes_error) ==
    Str(<<"Both URL and bytes analysis failed: ">> \o bytes_error)

\* f"Both URL and bytes analysis failed: {str(e)} / {str(bytes_error)}"
BothFailed(e, bytes_error) ==
    Str(<<"Both URL and bytes analysis failed: ">> \o e \o <<" / ">> \o bytes_error)

\* The `except Exception as e` handler of FallbackAnalysisStrategy.analyze:
\* e is str(e) of whatever was raised inside the try block, calls the provider
\* calls made so far.
FallbackExcept(analysis_service, calls, e, image_bytes) ==
    IF Truthy(image_bytes)
    THEN { IF c.out.kind = "return"
           THEN Run(calls \o <<c>>, c.out)
           ELSE Run(calls \o <<c>>,
                    Return([using_fallback |-> TRUE,
                            error |-> BothFailed(e, c.out.msg)]))
           : c \in Call(analysis_service, "bytes") }
    ELSE { Run(calls, Return([using_fallback |-> TRUE,
                              error |-> Str(<<"URL analysis failed and no bytes provided: ">> \o e)])) }

\* Faulty variant of the check: the `not` before the description test is
\* left out.
DegradedMissingNot(result) ==
    Get(result, "using_fallback", FALSE) \/ Truthy(Get(result, "description", None))

\* `result.get('using_fallback', False) or not result.get('description')`
Degraded(result) ==
    Get(result, "using_fallback", FALSE) \/ ~Truthy(Get(result, "description", None))

FallbackAnalyze(analysis_service, image_bytes, image_url) ==
    IF Truthy(image_url)
    THEN UNION {
           IF c1.out.kind = "return"
           THEN IF Degraded(c1.out.val) /\ Truthy(image_bytes)
                THEN UNION {
                       \* `return analysis_service.analyze_image(image_bytes=...)`
                       \* sits inside the try block: what it raises is caught by
                       \* the same handler as a failure of the URL call
                       IF c2.out.kind = "return"
                       THEN { Run(<<c1, c2>>, c2.out) }
                       ELSE FallbackExcept(analysis_service, <<c1, c2>>, c2.out.msg,
                                           image_bytes)
                       : c2 \in Call(analysis_service, "bytes") }
                ELSE { Run(<<c1>>, c1.out) }
           ELSE FallbackExcept(analysis_service, <<c1>>, c1.out.msg, image_bytes)
           : c1 \in Call(analysis_service, "url") }
    ELSE IF Truthy(image_bytes)
         THEN { Run(<<c>>, c.out) : c \in Call(analysis_service, "bytes") }
         ELSE { Run(<<>>, Return([using_fallback |-> TRUE,
                                  error |-> Str(<<"Neither URL nor bytes provided">>)])) }

Strategies == {"url", "bytes", "fallback"}

Analyze(strategy, analysis_service, image_bytes, image_url) ==
    CASE strategy = "url" -> UrlAnalyze(analysis_service, image_bytes, image_url)
      [] strategy = "bytes" -> BytesAnalyze(analysis_service, image_bytes, image_url)
      [] strategy = "fallback" -> FallbackAnalyze(analysis_service, image_bytes, image_url)

\* -------------------------------------------------------- storage helper
\* What one call of the boto3 client can do: succeed, raise ClientError, or
\* raise something that is not a ClientError (endpoint unreachable, missing
\* credentials, parameter validation).
S3Outcomes ==
    { [kind |-> "ok"],
      [kind |-> "ClientError", msg |-> <<"An error occurred (AccessDenied)">>],
      [kind |-> "other", msg |-> <<"Could not connect to the endpoint URL">>] }

PresignedUrl == Str(<<"https://bucket/key?sig">>)

\* S3Helper.upload_file: upload_fileobj (put), then generate_presigned_url
\* (sign) inside the same try. stored: the object is in the bucket afterwards.
UploadFile(put, sign) ==
    IF put.kind = "ok"
    THEN [stored |-> TRUE,
          out |-> CASE sign.kind = "ok" -> Return(PresignedUrl)
                    [] sign.kind = "ClientError" ->
                         Raise(<<"S3 upload failed: ">> \o sign.msg)
                    [] OTHER -> Raise(sign.msg)]
    ELSE [stored |-> FALSE,
          out |-> IF put.kind = "ClientError"
                  THEN Raise(<<"S3 upload failed: ">> \o put.msg)
                  ELSE Raise(put.msg)]

\* S3Helper.get_presigned_url
GetPresignedUrl(sign) ==
    CASE sign.kind = "ok" -> Return(PresignedUrl)
      [] sign.kind = "ClientError" -> Return(None)
      [] OTHER -> Raise(sign.msg)

\* S3Helper.delete_file
DeleteFile(del) ==
    CASE del.kind = "ok" -> Return(None)
      [] del.kind = "ClientError" -> Raise(<<"S3 delete failed: ">> \o del.msg)
      [] OTHER -> Raise(del.msg)

\* ------------------------------------------------------------ repository
\* db.session.commit() either commits or raises; nothing is written when it
\* raises.
DbOutcomes == { [kind |-> "ok"], [kind |-> "error", msg |-> <<"db commit failed">>] }

GetById(image_id) ==
    IF \E im \in images : im.id = image_id
    THEN CHOOSE im \in images : im.id = image_id
    ELSE None

\* Faulty variant of get_by_id_and_user: the user_id filter is missing.
GetByIdAnyUser(image_id, user_id) ==
    IF \E im \in images : im.id = image_id
    THEN CHOOSE im \in images : im.id = image_id
    ELSE None

GetByIdAndUser(image_id, user_id) ==
    IF \E im \in images : im.id = image_id /\ im.user_id = user_id
    THEN CHOOSE im \in images : im.id = image_id /\ im.user_id = user_id
    ELSE None

\* Faulty variant of list_by_user: the user_id filter is missing.
ListByUserUnfiltered(user_id) == images

ListByUser(user_id) == { im \in images : im.user_id = user_id }

\* Faulty variant of create: add without a commit that takes effect.
CreateNoCommit(image, db) == images

\* ImageRepository.create: the table after db.session.add + commit
Create(image, db) == IF db.kind = "ok" THEN images \cup {image} ELSE images

\* Faulty variant of delete: the row is never removed.
DeleteNoCommit(image, db) == images

\* ImageRepository.delete: the table after db.session.delete + commit
Delete(image, db) == IF db.kind = "ok" THEN images \ {image} ELSE images

\* ---------------------------------------------------------------- inputs
Users == {1, 2}
\* what file_obj.read() gives: the uploads modelled are non-empty files
FileContent == Bytes(<<"b1">>)
BytesInputs == { None, Bytes(<<>>), FileContent }
UrlInputs == { None, Str(<<>>), PresignedUrl }
Filenames == {"a.png"}
\* int(time.time()): the uploads modelled fall into the same second
Times == {1700000000}
ContentType == "image/png"

NoCall == [op |-> "none"]
NoRun == [strategy |-> "none"]
NoRequest == [route |-> "none"]

Init ==
    /\ images = {}
    /\ nextId = 1
    /\ bucket = {}
    /\ last = NoCall
    /\ sres = NoRun
    /\ ares = NoCall
    /\ keys = <<>>
    /\ users = {}
    /\ http = NoRequest

\* --------------------------------------------------------- ImageService
\* self.analysis_service: what the service the ImageService holds can answer
\* to one analyze_image call (a description, a fallback that carries a
\* description, an empty description, the client's own fallback response, an
\* exception of an injected service).
AnalysisService ==
    { Return([description |-> Str(<<"a cat">>), concepts |-> <<>>]),
      Return([description |-> Str(<<"a dog">>), concepts |-> <<>>,
              error |-> Str(<<"stale">>), using_fallback |-> TRUE]),
      Return([description |-> Str(<<>>), concepts |-> <<>>]),
      Return(CreateFallbackResponse(<<"Image analysis service is not available">>)),
      Raise(<<"timeout">>) }

\* self.analysis_strategy = analysis_strategy or FallbackAnalysisStrategy()
AnalysisStrategy == "fallback"

\* uuid.uuid4().hex: the value of the next draw
Uuid4Hex == Len(keys) + 1

\* Faulty variant of the key: no random token in it.
S3KeyNoToken(user_id, ts, tok, original_filename) ==
    <<user_id, "/", ts, "_", original_filename>>

\* f"{user_id}/{int(time.time())}_{uuid.uuid4().hex}_{original_filename}"
S3Key(user_id, ts, tok, original_filename) ==
    <<user_id, "/", ts, "_", tok, "_", original_filename>>

\* lines 99-110 of upload_image: the description kept from the strategy's
\* outcome (analysis is the strategy's outcome, or the exception of the
\* presign or the strategy that the enclosing try catches)
\* Faulty variant: the using_fallback flag is not looked at.
AiDescriptionOfFallback(analysis) ==
    IF analysis.kind = "raise" THEN None
    ELSE IF Truthy(Get(analysis.val, "description", None))
         THEN analysis.val.description
         ELSE None

\* Faulty variant: the description is taken as it comes, empty or not,
\* fallback or not.
AiDescriptionUnchecked(analysis) ==
    IF analysis.kind = "raise" THEN None
    ELSE Get(analysis.val, "description", None)

AiDescription(analysis) ==
    IF analysis.kind = "raise" THEN None
    ELSE IF Truthy(Get(analysis.val, "description", None))
            /\ ~Get(analysis.val, "using_fallback", FALSE)
         THEN analysis.val.description
         ELSE None

NewImage(id, user_id, s3_key, original_filename, file_content, ai_description) ==
    [id |-> id, filename |-> s3_key, original_filename |-> original_filename,
     s3_key |-> s3_key, file_size |-> Len(file_content.s), file_type |-> ContentType,
     ai_description |-> ai_description, user_id |-> user_id]

ProviderEvents(calls) == [i \in 1 .. Len(calls) |-> "provider." \o calls[i].by]

UploadCall(user_id, s3_key, upload, presign, analysis, db_kind, trace, out) ==
    [op |-> "upload", user_id |-> user_id, s3_key |-> s3_key, upload |-> upload,
     presign |-> presign, analysis |-> analysis, db |-> db_kind, trace |-> trace,
     out |-> out]

\* upload_image, lines 83-126, after upload_file has returned: presign,
\* analysis, persist. pre is get_presigned_url's outcome, run the strategy's
\* run (no calls, and the presign's exception as outcome, when the presign
\* raised: the strategy is then never called).
UploadPersist(user_id, original_filename, s3_key, up, pre, run, db) ==
    LET analysis == IF pre.kind = "raise" THEN pre ELSE run.out
        trace == <<"s3.upload_file", "s3.get_presigned_url">>
                 \o (IF pre.kind = "raise" THEN <<>>
                     ELSE <<"strategy.analyze">> \o ProviderEvents(run.calls))
                 \o <<"repo.create">>
        image == NewImage(nextId, user_id, s3_key, original_filename, FileContent,
                          AiDescription(analysis))
    IN
    /\ bucket' = bucket \cup {s3_key}
    /\ images' = Create(image, db)
    /\ IF db.kind = "ok"
       THEN /\ nextId' = nextId + 1
            /\ last' = UploadCall(user_id, s3_key, up.out, pre, analysis, "ok", trace,
                                  Return(<<image, None>>))
       ELSE /\ UNCHANGED nextId
            /\ last' = UploadCall(user_id, s3_key, up.out, pre, analysis, "error", trace,
                                  Raise(db.msg))
    /\ UNCHANGED <<sres, ares>>

\* Faulty variant of the abort: the record is written although upload_file
\* raised.
UploadAbortPersists(user_id, s3_key, up) ==
    /\ bucket' = IF up.stored THEN bucket \cup {s3_key} ELSE bucket
    /\ images' = images \cup {NewImage(nextId, user_id, s3_key, "a.png", FileContent, None)}
    /\ nextId' = nextId + 1
    /\ last' = UploadCall(user_id, s3_key, up.out, NoCall, NoCall, "none",
                          <<"s3.upload_file">>,
                          Return(<<None, Str(<<"Image upload failed: ">> \o up.out.msg)>>))
    /\ UNCHANGED <<sres, ares>>

\* Faulty variant of the abort: the failure of upload_file is swallowed.
UploadAbortSilent(user_id, s3_key, up) ==
    /\ bucket' = IF up.stored THEN bucket \cup {s3_key} ELSE bucket
    /\ last' = UploadCall(user_id, s3_key, up.out, NoCall, NoCall, "none",
                          <<"s3.upload_file">>, Return(<<None, None>>))
    /\ UNCHANGED <<images, nextId, sres, ares>>

\* upload_image, lines 62-81, when upload_file raised
UploadAbort(user_id, s3_key, up) ==
    /\ bucket' = IF up.stored THEN bucket \cup {s3_key} ELSE bucket
    /\ last' = UploadCall(user_id, s3_key, up.out, NoCall, NoCall, "none",
                          <<"s3.upload_file">>,
                          Return(<<None, Str(<<"Image upload failed: ">> \o up.out.msg)>>))
    /\ UNCHANGED <<images, nextId, sres, ares>>

\* ImageService().upload_image(user_id=user_id, ...); user_id is the value the
\* caller passes, an int or a str
UploadImageAs(user_id) ==
    /\ last = NoCall
    /\ nextId <= MaxImages
    /\ Len(keys) < MaxUploads
    /\ \E original_filename \in Filenames, ts \in Times, put \in S3Outcomes :
         \E sign0 \in (IF put.kind = "ok" THEN S3Outcomes ELSE {put}) :
           LET s3_key == S3Key(UserOf(user_id), ts, Uuid4Hex, original_filename)
               up == UploadFile(put, sign0)
           IN
           /\ keys' = Append(keys, s3_key)
           /\ IF up.out.kind = "raise"
              THEN UploadAbort(UserOf(user_id), s3_key, up)
              ELSE \E sign \in S3Outcomes, db \in DbOutcomes :
                     LET pre == GetPresignedUrl(sign) IN
                     \E run \in (IF pre.kind = "raise" THEN {Run(<<>>, pre)}
                                 ELSE Analyze(AnalysisStrategy, AnalysisService,
                                              FileContent, pre.val)) :
                       UploadPersist(UserOf(user_id), original_filename, s3_key,
                                     up, pre, run, db)

\* upload_image called with the owner's id as an int
UploadImage ==
    /\ \E user_id \in Users : UploadImageAs(IntValue(user_id))
    /\ UNCHANGED <<users, http>>

DeleteCall(user_id, image_id, image, del_out, db_kind, trace, out) ==
    [op |-> "delete", user_id |-> user_id, image_id |-> image_id, image |-> image,
     del |-> del_out, db |-> db_kind, trace |-> trace, out |-> out]

\* Faulty variant: no ownership check.
NotOwnerUnchecked(image, user_id) == FALSE

\* `image.user_id != user_id`: image.user_id is the int the column gives back,
\* user_id the value the caller passed; an int and a str are never equal
NotOwner(image, user_id) == IntValue(image.user_id) # user_id

\* Faulty variant of the delete: the row is removed before the storage object.
DeleteOwnedRecordFirst(user_id, image_id, image, del, db) ==
    LET rm == DeleteFile(del) IN
    /\ images' = Delete(image, db)
    /\ IF rm.kind = "raise"
       THEN /\ last' = DeleteCall(user_id, image_id, image, rm, db.kind,
                                  <<"repo.get_by_id", "repo.delete", "s3.delete_file">>,
                                  Return(<<FALSE, Str(<<"S3 delete failed: ">> \o rm.msg)>>))
            /\ UNCHANGED bucket
       ELSE /\ bucket' = bucket \ {image.s3_key}
            /\ last' = DeleteCall(user_id, image_id, image, rm, db.kind,
                                  <<"repo.get_by_id", "repo.delete", "s3.delete_file">>,
                                  Return(<<TRUE, None>>))

\* delete_image, lines 151-160: the image exists and is the caller's
DeleteOwned(user_id, image_id, image, del, db) ==
    LET rm == DeleteFile(del) IN
    IF rm.kind = "raise"
    THEN /\ last' = DeleteCall(user_id, image_id, image, rm, "none",
                               <<"repo.get_by_id", "s3.delete_file">>,
                               Return(<<FALSE, Str(<<"S3 delete failed: ">> \o rm.msg)>>))
         /\ UNCHANGED <<images, bucket>>
    ELSE /\ bucket' = bucket \ {image.s3_key}
         /\ images' = Delete(image, db)
         /\ IF db.kind = "ok"
            THEN last' = DeleteCall(user_id, image_id, image, rm, "ok",
                                  <<"repo.get_by_id", "s3.delete_file", "repo.delete">>,
                                  Return(<<TRUE, None>>))
            ELSE last' = DeleteCall(user_id, image_id, image, rm, "error",
                                  <<"repo.get_by_id", "s3.delete_file", "repo.delete">>,
                                  Raise(db.msg))

\* ImageService().delete_image(image_id, user_id); user_id is the value the
\* caller passes, an int or a str
DeleteImageAs(user_id) ==
    /\ last = NoCall
    /\ \E image_id \in 1 .. MaxImages + 1, del \in S3Outcomes, db \in DbOutcomes :
         LET image == GetById(image_id) IN
         /\ UNCHANGED <<nextId, sres, ares, keys>>
         /\ IF image = None
            THEN /\ last' = DeleteCall(UserOf(user_id), image_id, image, NoCall, "none",
                                       <<"repo.get_by_id">>,
                                       Return(<<FALSE, Str(<<"Image not found.">>)>>))
                 /\ UNCHANGED <<images, bucket>>
            ELSE IF NotOwner(image, user_id)
            THEN /\ last' = DeleteCall(UserOf(user_id), image_id, image, NoCall, "none",
                                       <<"repo.get_by_id">>,
                                       Return(<<FALSE, Str(<<"Unauthorized to delete this image.">>)>>))
                 /\ UNCHANGED <<images, bucket>>
            ELSE DeleteOwned(UserOf(user_id), image_id, image, del, db)

\* delete_image called with the caller's id as an int
DeleteImage ==
    /\ \E user_id \in Users : DeleteImageAs(IntValue(user_id))
    /\ UNCHANGED <<users, http>>

\* ImageService().get_image(image_id, user_id)
GetImageAs(user_id) ==
    /\ last = NoCall
    /\ \E image_id \in 1 .. MaxImages + 1 :
         /\ last' = [op |-> "get", user_id |-> UserOf(user_id), image_id |-> image_id,
                     out |-> Return(GetByIdAndUser(image_id, UserOf(user_id)))]
         /\ UNCHANGED <<images, nextId, bucket, sres, ares, keys>>

GetImage ==
    /\ \E user_id \in Users : GetImageAs(IntValue(user_id))
    /\ UNCHANGED <<users, http>>

\* ImageService().list_user_images(user_id)
ListUserImagesAs(user_id) ==
    /\ last = NoCall
    /\ last' = [op |-> "list", user_id |-> UserOf(user_id),
                out |-> Return(ListByUser(UserOf(user_id)))]
    /\ UNCHANGED <<images, nextId, bucket, sres, ares, keys>>

ListUserImages ==
    /\ \E user_id \in Users : ListUserImagesAs(IntValue(user_id))
    /\ UNCHANGED <<users, http>>

\* The controller hands the call's result to its caller; the ImageService
\* instance of the request is dropped.
Respond ==
    /\ last # NoCall
    /\ last' = NoCall
    /\ UNCHANGED <<images, nextId, bucket, sres, ares, keys, users, http>>

Next == UploadImage \/ DeleteImage \/ GetImage \/ ListUserImages \/ Respond

Spec == Init /\ [][Next]_vars

\* One call of strategy.analyze(analysis_service, image_bytes, image_url)
StrategyAnalyze ==
    \E st \in Strategies, b \in BytesInputs, u \in UrlInputs :
      \E run \in Analyze(st, ProviderOutcomes, b, u) :
        /\ sres' = [strategy |-> st, image_bytes |-> b, image_url |-> u,
                    calls |-> run.calls, out |-> run.out]
        /\ UNCHANGED <<images, nextId, bucket, last, ares, keys, users, http>>

NextStrategy == StrategyAnalyze

SpecStrategy == Init /\ [][NextStrategy]_vars

\* ------------------------------------- ImageAnalysisService (Clarifai client)
\* `concept.value > 0.5`, confidences in hundredths
Threshold == 50
\* generate_description(self, concepts, max_concepts=5)
MaxDescribed == 5

WorkflowUrl == Str(<<"https://clarifai.com/u/a/workflows/w">>)

\* sorted(concepts, key=lambda x: x['value'], reverse=True): x is put behind
\* every element whose value is not smaller (the sort is stable)
InsertByValue(sorted, x) ==
    LET k == Cardinality({ i \in DOMAIN sorted : sorted[i].value >= x.value })
    IN SubSeq(sorted, 1, k) \o <<x>> \o SubSeq(sorted, k + 1, Len(sorted))

RECURSIVE SortedByValue(_)
SortedByValue(concepts) ==
    IF concepts = <<>> THEN <<>>
    ELSE InsertByValue(SortedByValue(SubSeq(concepts, 1, Len(concepts) - 1)),
                       concepts[Len(concepts)])

\* ", ".join(names)
RECURSIVE JoinComma(_)
JoinComma(names) ==
    IF Len(names) <= 1 THEN names
    ELSE <<names[1], ", ">> \o JoinComma(Tail(names))

\* s[:n]
Take(s, n) == SubSeq(s, 1, IF Len(s) < n THEN Len(s) ELSE n)

\* Faulty variant of generate_description: concepts are named in the order
\* the provider gave them.
GenerateDescriptionUnsorted(concepts) ==
    IF concepts = <<>> THEN None
    ELSE LET top_concepts == Take(concepts, MaxDescribed)
             concept_names == [i \in DOMAIN top_concepts |-> top_concepts[i].name]
             n == Len(concept_names)
         IN IF n = 1
            THEN Str(<<"This image appears to be a ", concept_names[1], ".">>)
            ELSE IF n = 2
            THEN Str(<<"This image appears to contain ", concept_names[1], " and ",
                       concept_names[2], ".">>)
            ELSE Str(<<"This image appears to contain ">>
                     \o JoinComma(SubSeq(concept_names, 1, n - 1))
                     \o <<", and ", concept_names[n], ".">>)

GenerateDescription(concepts) ==
    IF concepts = <<>> THEN None
    ELSE LET sorted_concepts == SortedByValue(concepts)
             top_concepts == Take(sorted_concepts, MaxDescribed)
             concept_names == [i \in DOMAIN top_concepts |-> top_concepts[i].name]
             n == Len(concept_names)
         IN IF n = 1
            THEN Str(<<"This image appears to be a ", concept_names[1], ".">>)
            ELSE IF n = 2
            THEN Str(<<"This image appears to contain ", concept_names[1], " and ",
                       concept_names[2], ".">>)
            ELSE Str(<<"This image appears to contain ">>
                     \o JoinComma(SubSeq(concept_names, 1, n - 1))
                     \o <<", and ", concept_names[n], ".">>)

\* Faulty variant of the filter: a concept at the threshold is kept.
KeptAtThreshold(output) ==
    LET Confident(concept) == concept.value >= Threshold
        kept == SelectSeq(output.data.concepts, Confident)
    IN [i \in DOMAIN kept |->
          [name |-> kept[i].name, value |-> kept[i].value,
           model |-> IF "model" \in DOMAIN output THEN output.model.id ELSE "unknown"]]

\* lines 154-162: the concepts of one workflow output that are kept
Kept(output) ==
    LET Confident(concept) == concept.value > Threshold
        kept == SelectSeq(output.data.concepts, Confident)
    IN [i \in DOMAIN kept |->
          [name |-> kept[i].name, value |-> kept[i].value,
           model |-> IF "model" \in DOMAIN output THEN output.model.id ELSE "unknown"]]

\* lines 146-162: the loop over result.outputs; hasattr(x, 'f') is "f is a
\* field of record x"
RECURSIVE Extract(_)
Extract(outputs) ==
    IF outputs = <<>> THEN [description |-> None, concepts |-> <<>>]
    ELSE LET before == Extract(SubSeq(outputs, 1, Len(outputs) - 1))
             output == outputs[Len(outputs)]
         IN IF "data" \in DOMAIN output
            THEN [description |-> IF "text" \in DOMAIN output.data
                                  THEN output.data.text.raw
                                  ELSE before.description,
                  concepts |-> before.concepts
                               \o (IF "concepts" \in DOMAIN output.data
                                   THEN Kept(output) ELSE <<>>)]
            ELSE before

\* lines 178-182: the handler of _analyze_with_clarifai_workflow
WorkflowError(e) ==
    Return(CreateFallbackResponse(<<"Clarifai workflow error: ">> \o e))

\* _analyze_with_clarifai_workflow: provider is what the Clarifai client does
\* in this call (Workflow(...) raises, predict_by_* raises, or a response);
\* requests: the provider requests issued
AnalyzeWithClarifaiWorkflow(image_bytes, image_url, provider) ==
    IF provider.kind = "raise" /\ provider.at = "Workflow"
    THEN [requests |-> <<>>, out |-> WorkflowError(provider.msg)]
    ELSE LET request == IF Truthy(image_bytes) THEN "predict_by_bytes"
                                               ELSE "predict_by_url"
         IN IF provider.kind = "raise"
            THEN [requests |-> <<request>>, out |-> WorkflowError(provider.msg)]
            ELSE LET response == provider.response
                     found == IF "results" \in DOMAIN response /\ response.results # <<>>
                              THEN LET result == response.results[1]
                                   IN IF "outputs" \in DOMAIN result
                                      THEN Extract(result.outputs)
                                      ELSE Extract(<<>>)
                              ELSE Extract(<<>>)
                     description == IF ~Truthy(found.description) /\ found.concepts # <<>>
                                    THEN GenerateDescription(found.concepts)
                                    ELSE found.description
                 IN [requests |-> <<request>>,
                     out |-> Return([description |-> description,
                                     concepts |-> SortedByValue(found.concepts),
                                     workflow_url |-> WorkflowUrl,
                                     raw_response |-> Str(<<"str(response)">>)])]

\* Faulty variant of analyze_image: is_available is not looked at.
AnalyzeImageUnguarded(is_available, image_bytes, image_url, provider) ==
    IF ~Truthy(image_bytes) /\ ~Truthy(image_url)
    THEN [requests |-> <<>>,
          out |-> Return(CreateFallbackResponse(
                           <<"Either image_bytes or image_url must be provided">>))]
    ELSE AnalyzeWithClarifaiWorkflow(image_bytes, image_url, provider)

\* analyze_image (self.provider == "clarifai")
AnalyzeImageResult(is_available, image_bytes, image_url, provider) ==
    IF ~is_available
    THEN [requests |-> <<>>,
          out |-> Return(CreateFallbackResponse(<<"Image analysis service is not available">>))]
    ELSE IF ~Truthy(image_bytes) /\ ~Truthy(image_url)
    THEN [requests |-> <<>>,
          out |-> Return(CreateFallbackResponse(
                           <<"Either image_bytes or image_url must be provided">>))]
    ELSE LET r == AnalyzeWithClarifaiWorkflow(image_bytes, image_url, provider)
         IN IF r.out.kind = "raise"
            THEN [requests |-> r.requests,
                  out |-> Return(CreateFallbackResponse(<<"Analysis failed: ">> \o r.out.msg))]
            ELSE r

\* ---- what the provider can answer
Pool ==
    { [name |-> "dog", value |-> 90], [name |-> "cat", value |-> 90],
      [name |-> "sky", value |-> 80], [name |-> "park", value |-> 70],
      [name |-> "tree", value |-> 60], [name |-> "car", value |-> 55],
      [name |-> "grass", value |-> 50], [name |-> "mud", value |-> 40] }

ProviderOrder ==
    << [name |-> "tree", value |-> 60], [name |-> "dog", value |-> 90],
       [name |-> "grass", value |-> 50], [name |-> "car", value |-> 55],
       [name |-> "cat", value |-> 90], [name |-> "mud", value |-> 40],
       [name |-> "sky", value |-> 80], [name |-> "park", value |-> 70] >>

Reverse(s) == [i \in DOMAIN s |-> s[Len(s) + 1 - i]]

\* the elements of order at the positions in S, in order
Pick(order, S) ==
    [i \in 1 .. Cardinality(S) |->
       order[CHOOSE k \in S : Cardinality({ j \in S : j <= k }) = i]]

ConceptLists ==
    UNION { { l \in [1 .. n -> Pool] : \A i, j \in 1 .. n : i < j => l[i] # l[j] }
            : n \in 0 .. MaxPermuted }
    \cup UNION { { Pick(ProviderOrder, S), Reverse(Pick(ProviderOrder, S)) }
                 : S \in { T \in SUBSET (DOMAIN ProviderOrder) :
                             /\ Cardinality(T) > MaxPermuted
                             /\ Cardinality(T) <= MaxConcepts } }

ConceptsOutput(l) == [data |-> [concepts |-> l], model |-> [id |-> "general"]]
CaptionOutput(raw) == [data |-> [text |-> [raw |-> Str(raw)]], model |-> [id |-> "captioner"]]

\* An output of a classification model as the protobuf message gives it: the
\* text field of its data is there, with the default (empty) raw.
ClassifierOutput(l) ==
    [data |-> [text |-> [raw |-> Str(<<>>)], concepts |-> l], model |-> [id |-> "general"]]

\* workflow responses: the concepts of one model; a caption and concepts; a
\* caption followed by a classifier's output; a concepts output followed by an
\* output with an empty text; the concepts spread over two outputs, the second
\* without a model
ResponsesOf(l) ==
    LET h == Len(l) \div 2 IN
    { [results |-> << [outputs |-> <<ConceptsOutput(l)>>] >>],
      [results |-> << [outputs |-> <<CaptionOutput(<<"a cat">>), ConceptsOutput(l)>>] >>],
      [results |-> << [outputs |-> <<CaptionOutput(<<"a cat">>), ClassifierOutput(l)>>] >>],
      [results |-> << [outputs |-> <<ConceptsOutput(l), CaptionOutput(<<>>)>>] >>],
      [results |-> << [outputs |-> <<ConceptsOutput(SubSeq(l, 1, h)),
                                     [data |-> [concepts |-> SubSeq(l, h + 1, Len(l))]]>>] >>] }

ClientFailures ==
    { [kind |-> "raise", at |-> "Workflow", msg |-> <<"invalid workflow url">>],
      [kind |-> "raise", at |-> "predict", msg |-> <<"deadline exceeded">>],
      [kind |-> "response", response |-> [results |-> <<>>]],
      [kind |-> "response", response |-> [status |-> "failure"]],
      [kind |-> "response", response |-> [results |-> << [status |-> "no outputs"] >>]] }

ClientOutcomes ==
    ClientFailures
    \cup { [kind |-> "response", response |-> r] :
             r \in UNION { ResponsesOf(l) : l \in ConceptLists } }

\* A call of the client that has been made and not yet answered.
ClientCalls ==
    { [op |-> "analyze", is_available |-> a, image_bytes |-> b, image_url |-> u,
       provider |-> p, state |-> "called"] :
        a \in BOOLEAN, b \in {None, FileContent}, u \in {None, PresignedUrl},
        p \in ClientFailures }
    \cup { [op |-> "analyze", is_available |-> TRUE, image_bytes |-> i[1],
            image_url |-> i[2], provider |-> p, state |-> "called"] :
             i \in { <<FileContent, None>>, <<None, PresignedUrl>>,
                     <<FileContent, PresignedUrl>> },
             p \in ClientOutcomes }
    \cup { [op |-> "describe", concepts |-> l, state |-> "called"] : l \in ConceptLists }

InitClient ==
    /\ images = {}
    /\ nextId = 1
    /\ bucket = {}
    /\ last = NoCall
    /\ sres = NoRun
    /\ ares \in ClientCalls
    /\ keys = <<>>
    /\ users = {}
    /\ http = NoRequest

AnalyzeImage ==
    /\ ares.op = "analyze"
    /\ ares.state = "called"
    /\ LET r == AnalyzeImageResult(ares.is_available, ares.image_bytes,
                                   ares.image_url, ares.provider)
       IN ares' = [op |-> "analyze", is_available |-> ares.is_available,
                   image_bytes |-> ares.image_bytes, image_url |-> ares.image_url,
                   provider |-> ares.provider, state |-> "done",
                   requests |-> r.requests, out |-> r.out]
    /\ UNCHANGED <<images, nextId, bucket, last, sres, keys, users, http>>

Describe ==
    /\ ares.op = "describe"
    /\ ares.state = "called"
    /\ ares' = [op |-> "describe", concepts |-> ares.concepts, state |-> "done",
                out |-> Return(GenerateDescription(ares.concepts))]
    /\ UNCHANGED <<images, nextId, bucket, last, sres, keys, users, http>>

NextClient == AnalyzeImage \/ Describe

SpecClient == InitClient /\ [][NextClient]_vars

\* ------------------------------------------- users, tokens and the HTTP layer
\* request inputs: two usernames the registration schema accepts and one it
\* rejects, two e-mail addresses, the password every registration uses and
\* one that was never set
ValidUsernames == {"ann", "bob"}
Usernames == ValidUsernames \cup {"a!"}
Emails == {"ann@x.org", "bob@x.org"}
Password == "secret123"
Passwords == {Password, "wrong000"}

\* UserRepository.get_by_username
GetByUsername(username) ==
    IF \E u \in users : u.username = username
    THEN CHOOSE u \in users : u.username = username
    ELSE None

\* UserRepository.get_by_email
GetByEmail(email) ==
    IF \E u \in users : u.email = email
    THEN CHOOSE u \in users : u.email = email
    ELSE None

\* UserRepository.create: the table after db.session.add + commit
CreateUser(user, db) == IF db.kind = "ok" THEN users \cup {user} ELSE users

\* create_access_token(identity=...): the token carries the identity as given
CreateAccessToken(identity) == [sub |-> identity]

\* get_jwt_identity(): the identity the request's token carries
GetJwtIdentity(token) == token.sub

\* UserService.register_user: the table afterwards and the outcome; the
\* duplicate branches return a pair, the success branch a triple
RegisterUser(data, db) ==
    IF GetByUsername(data.username) # None
    THEN [users |-> users,
          out |-> Return(<<None, Str(<<"Username already exists.">>)>>)]
    ELSE IF GetByEmail(data.email) # None
    THEN [users |-> users,
          out |-> Return(<<None, Str(<<"Email already exists.">>)>>)]
    ELSE LET user == [id |-> Cardinality(users) + 1, username |-> data.username,
                      email |-> data.email, password |-> data.password]
         IN IF db.kind = "ok"
            THEN [users |-> CreateUser(user, db),
                  out |-> Return(<<user, CreateAccessToken(StrOfInt(user.id)), None>>)]
            ELSE [users |-> CreateUser(user, db), out |-> Raise(db.msg)]

\* UserService.authenticate_user
AuthenticateUser(data) ==
    LET user == IF data.username_or_email \in Emails
                THEN GetByEmail(data.username_or_email)
                ELSE GetByUsername(data.username_or_email)
    IN IF user = None \/ user.password # data.password
       THEN Return(<<None, None, Str(<<"Invalid credentials.">>)>>)
       ELSE Return(<<user, CreateAccessToken(StrOfInt(user.id)), None>>)

\* `a, b, c = value`: unpacking a tuple into n names
Unpack(out, n) ==
    IF out.kind = "raise" THEN out
    ELSE IF Len(out.val) = n THEN out
    ELSE IF Len(out.val) < n
    THEN Raise(<<"not enough values to unpack (expected ", n, ", got ", Len(out.val), ")">>)
    ELSE Raise(<<"too many values to unpack (expected ", n, ")">>)

\* An exception no handler catches ends the request with status 500.
ServerError(out) == [status |-> 500, body |-> [errors |-> Str(out.msg)]]

\* controllers/auth_controller.py register_user: the table afterwards, what
\* the service returned, and the response
RegisterUserController(request_data, db) ==
    IF request_data.username \notin ValidUsernames
    THEN [users |-> users, service |-> NoCall,
          response |-> [status |-> 400, body |-> [errors |-> Str(<<"username">>)]]]
    ELSE LET r == RegisterUser(request_data, db)
             t == Unpack(r.out, 3)
         IN [users |-> r.users, service |-> r.out,
             response |-> IF t.kind = "raise" THEN ServerError(t)
                          ELSE IF t.val[3] # None
                          THEN [status |-> 409, body |-> [errors |-> t.val[3]]]
                          ELSE [status |-> 201,
                                body |-> [user |-> t.val[1], access_token |-> t.val[2]]]]

\* controllers/auth_controller.py login_user
LoginUserController(request_data) ==
    LET out == AuthenticateUser(request_data)
        t == Unpack(out, 3)
    IN [service |-> out,
        response |-> IF t.kind = "raise" THEN ServerError(t)
                     ELSE IF t.val[3] # None
                     THEN [status |-> 401, body |-> [errors |-> t.val[3]]]
                     ELSE [status |-> 200,
                           body |-> [user |-> t.val[1], access_token |-> t.val[2]]]]

\* controllers/image_controller.py: the response to each service outcome
UploadImageResponse(out) ==
    LET t == Unpack(out, 2)
    IN IF t.kind = "raise" THEN ServerError(t)
       ELSE IF t.val[2] # None THEN [status |-> 400, body |-> [errors |-> t.val[2]]]
       ELSE [status |-> 201, body |-> t.val[1]]

GetImageResponse(out) ==
    IF out.kind = "raise" THEN ServerError(out)
    ELSE IF out.val = None
    THEN [status |-> 404, body |-> [errors |-> Str(<<"Image not found.">>)]]
    ELSE [status |-> 200, body |-> out.val]

GetAllImagesResponse(out) ==
    IF out.kind = "raise" THEN ServerError(out)
    ELSE [status |-> 200, body |-> out.val]

DeleteImageResponse(out) ==
    LET t == Unpack(out, 2)
    IN IF t.kind = "raise" THEN ServerError(t)
       ELSE IF ~t.val[1] THEN [status |-> 400, body |-> [errors |-> t.val[2]]]
       ELSE [status |-> 200,
             body |-> [message |-> Str(<<"Image deleted successfully.">>)]]

\* The access tokens clients hold: register_user and authenticate_user have
\* issued one to every user in the table.
IssuedTokens == { CreateAccessToken(StrOfInt(u.id)) : u \in users }

Request(route, token, response) ==
    [route |-> route, token |-> token, status |-> response.status,
     body |-> response.body]

\* POST /api/v1/auth/register
Register ==
    /\ http = NoRequest
    /\ \E username \in Usernames, email \in Emails, db \in DbOutcomes :
         LET data == [username |-> username, email |-> email, password |-> Password]
             r == RegisterUserController(data, db)
         IN /\ users' = r.users
            /\ http' = [route |-> "register", data |-> data, service |-> r.service,
                        status |-> r.response.status, body |-> r.response.body]
    /\ UNCHANGED <<images, nextId, bucket, last, sres, ares, keys>>

\* POST /api/v1/auth/login
Login ==
    /\ http = NoRequest
    /\ \E name \in Usernames \cup Emails, password \in Passwords :
         LET data == [username_or_email |-> name, password |-> password]
             r == LoginUserController(data)
         IN http' = [route |-> "login", data |-> data, service |-> r.service,
                     status |-> r.response.status, body |-> r.response.body]
    /\ UNCHANGED <<images, nextId, bucket, last, sres, ares, keys, users>>

\* POST /api/v1/images/upload (routes/image.py upload): with a file the
\* controller calls the service, without one it answers 400
HttpUpload ==
    /\ http = NoRequest
    /\ \E token \in IssuedTokens :
         LET user_id == GetJwtIdentity(token) IN
         \/ /\ UploadImageAs(user_id)
            /\ http' = Request("upload", token, UploadImageResponse(last'.out))
         \/ /\ http' = Request("upload", token,
                               [status |-> 400,
                                body |-> [errors |-> Str(<<"No file provided.">>)]])
            /\ UNCHANGED <<images, nextId, bucket, last, sres, ares, keys>>
    /\ UNCHANGED users

\* GET /api/v1/images/<int:image_id>
HttpGet ==
    /\ http = NoRequest
    /\ \E token \in IssuedTokens :
         /\ GetImageAs(GetJwtIdentity(token))
         /\ http' = Request("get", token, GetImageResponse(last'.out))
    /\ UNCHANGED users

\* GET /api/v1/images/
HttpList ==
    /\ http = NoRequest
    /\ \E token \in IssuedTokens :
         /\ ListUserImagesAs(GetJwtIdentity(token))
         /\ http' = Request("list", token, GetAllImagesResponse(last'.out))
    /\ UNCHANGED users

\* DELETE /api/v1/images/<int:image_id>
HttpDelete ==
    /\ http = NoRequest
    /\ \E token \in IssuedTokens :
         /\ DeleteImageAs(GetJwtIdentity(token))
         /\ http' = Request("delete", token, DeleteImageResponse(last'.out))
    /\ UNCHANGED users

\* The response is sent; the request's ImageService instance is dropped.
Reply ==
    /\ http # NoRequest
    /\ http' = NoRequest
    /\ last' = NoCall
    /\ UNCHANGED <<images, nextId, bucket, sres, ares, keys, users>>

NextHttp == Register \/ Login \/ HttpUpload \/ HttpGet \/ HttpList \/ HttpDelete \/ Reply

SpecHttp == Init /\ [][NextHttp]_vars

\* ================================================================ claims
InTrace(ev) == \E i \in DOMAIN last.trace : last.trace[i] = ev

\* ev1 occurs in the call's trace, and every ev2 comes after it
Precedes(ev1, ev2) ==
    \E i \in DOMAIN last.trace :
      /\ last.trace[i] = ev1
      /\ \A j \in DOMAIN last.trace : last.trace[j] = ev2 => i < j

UploadStored == last.op = "upload" /\ last.upload.kind = "return"

\* the analysis chain failed: what the strategy (or the presign before it)
\* handed to upload_image is an exception or a using_fallback result
AnalysisFailed ==
    \/ last.analysis.kind = "raise"
    \/ Get(last.analysis.val, "using_fallback", FALSE)

ReturnedAssetWithNullDescription ==
    /\ last.out.kind = "return"
    /\ last.out.val[1] # None
    /\ last.out.val[1].ai_description = None
    /\ last.out.val[2] = None
    /\ last.out.val[1] \in images

\* C1 as stated: whenever the storage upload succeeded and the analysis chain
\* failed, upload_image returns (asset, None) with asset.ai_description None,
\* and the asset is in the table.
C1_AsStated == (UploadStored /\ AnalysisFailed) => ReturnedAssetWithNullDescription

\* C1 amended: whenever the storage upload succeeded and the analysis chain
\* failed, then if the repository's create commits, upload_image returns
\* (asset, None) with asset.ai_description None and the asset is in the table;
\* if the create raises, that exception leaves upload_image and the call has
\* added no row.
C1_UploadSurvivesAnalysisFailure ==
    [][(last.op = "none" /\ UploadStored' /\ AnalysisFailed') =>
         IF last'.db = "ok"
         THEN ReturnedAssetWithNullDescription'
         ELSE /\ last'.out.kind = "raise"
              /\ images' = images]_vars

C1_Witness ==
    /\ UploadStored
    /\ last.analysis.kind = "raise"
    /\ InTrace("provider.bytes")
    /\ last.db = "ok"
    /\ last.out.kind = "return"
    /\ last.out.val[1] \in images

NoStepAfterUpload ==
    /\ ~InTrace("s3.get_presigned_url")
    /\ ~InTrace("strategy.analyze")
    /\ ~InTrace("provider.url")
    /\ ~InTrace("provider.bytes")
    /\ ~InTrace("repo.create")

\* C2: a call of upload_image whose upload_file raised returns
\* (None, "Image upload failed: " + str(e)), made no presign, strategy,
\* provider or create call, and left the table as it was.
C2_StorageFailureAborts ==
    [][(last'.op = "upload" /\ last'.upload.kind = "raise") =>
         /\ last'.out = Return(<<None, Str(<<"Image upload failed: ">> \o last'.upload.msg)>>)
         /\ NoStepAfterUpload'
         /\ images' = images
         /\ nextId' = nextId]_vars

C2_Witness ==
    /\ last.op = "upload"
    /\ last.upload.kind = "raise"
    /\ images # {}
    /\ last.s3_key \in bucket

\* the call just made added a row for its storage key
AddsRecord == \E im \in images' \ images : im.s3_key = last'.s3_key

\* C3 as stated: an upload_image call adds a row for its storage key if and
\* only if its upload_file returned.
C3_AsStated ==
    [][(last.op = "none" /\ last'.op = "upload") =>
         (AddsRecord <=> last'.upload.kind = "return")]_vars

\* C3 amended: an upload_image call adds a row for its storage key if and only
\* if its upload_file returned and the repository's create committed; what the
\* analysis gave (a description, a fallback, an exception) plays no part.
C3_PersistedIffStoredAndCommitted ==
    [][(last.op = "none" /\ last'.op = "upload") =>
         (AddsRecord <=> (last'.upload.kind = "return" /\ last'.db = "ok"))]_vars

C3_Witness ==
    /\ UploadStored
    /\ AnalysisFailed
    /\ last.db = "ok"
    /\ \E im \in images : im.s3_key = last.s3_key /\ im.id = nextId - 1

\* C4: the row an upload_image call persisted carries the strategy result's
\* description when that description is non-empty and using_fallback is not
\* set, and None in every other case.
C4_DescriptionOnlyWhenGenuine ==
    (last.op = "upload" /\ last.out.kind = "return" /\ last.out.val[1] # None) =>
        LET a == last.analysis
            im == last.out.val[1]
            genuine == /\ a.kind = "return"
                       /\ "description" \in DOMAIN a.val
                       /\ a.val.description # None
                       /\ a.val.description # Str(<<>>)
                       /\ ("using_fallback" \in DOMAIN a.val => ~a.val.using_fallback)
        IN /\ im \in images
           /\ genuine => im.ai_description = a.val.description
           /\ ~genuine => im.ai_description = None

C4_Witness ==
    /\ last.op = "upload"
    /\ last.out.kind = "return"
    /\ last.out.val[1] \in images
    /\ last.analysis.kind = "return"
    /\ Get(last.analysis.val, "using_fallback", FALSE)
    /\ Get(last.analysis.val, "description", None) = Str(<<"a dog">>)
    /\ last.out.val[1].ai_description = None

FallbackRun ==
    /\ sres.strategy = "fallback"
    /\ Truthy(sres.image_url)

UrlCallDegraded ==
    /\ FallbackRun
    /\ sres.calls[1].out.kind = "return"
    /\ Degraded(sres.calls[1].out.val)

IsFallbackCiting(out, msgs) ==
    /\ out.kind = "return"
    /\ Get(out.val, "using_fallback", FALSE)
    /\ "error" \in DOMAIN out.val
    /\ \A m \in msgs : Contains(out.val.error.s, m)

\* C5 as stated: in a fallback-strategy run with url and bytes where the URL
\* call returned a result with using_fallback set or no description, the
\* second provider call is by bytes and the run gives the result of that call
\* (read at its widest: when that call raised, its exception or a
\* using_fallback result that cites it), never the result of another call.
C5_AsStated ==
    (UrlCallDegraded /\ Truthy(sres.image_bytes)) =>
        /\ Len(sres.calls) >= 2
        /\ sres.calls[2].by = "bytes"
        /\ IF sres.calls[2].out.kind = "return"
           THEN sres.out = sres.calls[2].out
           ELSE \/ sres.out = sres.calls[2].out
                \/ IsFallbackCiting(sres.out, {sres.calls[2].out.msg})

UrlCallRaised ==
    /\ FallbackRun
    /\ sres.calls[1].out.kind = "raise"

\* C6: in a fallback-strategy run whose URL call raised: with bytes, there is
\* exactly one more call, by bytes, and the run gives that call's result, or,
\* when it raised too, a using_fallback result whose error holds both
\* exceptions' messages; without bytes there is no further call and the run
\* gives a using_fallback result whose error holds the URL exception's message.
C6_UrlRaiseHandled ==
    UrlCallRaised =>
        IF Truthy(sres.image_bytes)
        THEN /\ Len(sres.calls) = 2
             /\ sres.calls[2].by = "bytes"
             /\ IF sres.calls[2].out.kind = "return"
                THEN sres.out = sres.calls[2].out
                ELSE IsFallbackCiting(sres.out, {sres.calls[1].out.msg,
                                                 sres.calls[2].out.msg})
        ELSE /\ Len(sres.calls) = 1
             /\ IsFallbackCiting(sres.out, {sres.calls[1].out.msg})

C6_Witness ==
    /\ UrlCallRaised
    /\ Len(sres.calls) = 2
    /\ sres.calls[2].out.kind = "raise"
    /\ sres.calls[2].out.msg # sres.calls[1].out.msg
    /\ sres.out.kind = "return"

Unauthorized == Return(<<FALSE, Str(<<"Unauthorized to delete this image.">>)>>)

\* C7: a delete_image call for an existing image of another user returns
\* (False, "Unauthorized to delete this image."), makes no storage delete and
\* no repository delete, and leaves bucket and table as they were.
C7_ForeignDeleteRefused ==
    [][(last.op = "none" /\ last'.op = "delete" /\ last'.image # None
        /\ last'.image.user_id # last'.user_id) =>
         /\ last'.out = Unauthorized
         /\ ~InTrace("s3.delete_file")'
         /\ ~InTrace("repo.delete")'
         /\ bucket' = bucket
         /\ images' = images
         /\ last'.image \in images']_vars

C7_Witness ==
    /\ last.op = "delete"
    /\ last.image # None
    /\ last.image.user_id # last.user_id
    /\ last.image \in images
    /\ last.image.s3_key \in bucket
    /\ last.out = Unauthorized

\* C8: get_image returns a row only if that row is in the table, has the id
\* asked for and the caller as user_id; when no such row exists - the id is
\* unknown, or the image is another user's - it returns None in both cases.
C8_GetImageOwnerOnly ==
    last.op = "get" =>
        LET r == last.out.val
            owned == { im \in images : im.id = last.image_id /\ im.user_id = last.user_id }
        IN /\ r # None => r \in owned
           /\ owned = {} => r = None
           /\ owned # {} => r # None

C8_Witness ==
    /\ last.op = "get"
    /\ last.out.val = None
    /\ \E im \in images : im.id = last.image_id /\ im.user_id # last.user_id

\* C9: a delete_image call by the owner whose delete_file raised returns
\* (False, "S3 delete failed: " + str(e)) and the row is still there:
\* list_user_images of the owner holds it.
C9_StorageDeleteFailureKeepsRecord ==
    (last.op = "delete" /\ last.del # NoCall /\ last.del.kind = "raise") =>
        /\ last.out = Return(<<FALSE, Str(<<"S3 delete failed: ">> \o last.del.msg)>>)
        /\ last.image \in ListByUser(last.user_id)

C9_Witness ==
    /\ last.op = "delete"
    /\ last.del # NoCall
    /\ last.del.kind = "raise"
    /\ last.image.user_id = last.user_id
    /\ last.out.kind = "return"
    /\ last.out.val[1] = FALSE

OwnerDeleteStorageOk ==
    /\ last.op = "delete"
    /\ last.image # None
    /\ last.image.user_id = last.user_id
    /\ last.del # NoCall
    /\ last.del.kind = "return"

DeletedForOwner ==
    /\ Precedes("s3.delete_file", "repo.delete")
    /\ InTrace("repo.delete")
    /\ last.out = Return(<<TRUE, None>>)
    /\ last.image \notin images
    /\ GetByIdAndUser(last.image_id, last.user_id) = None
    /\ last.image \notin ListByUser(last.user_id)

\* C10 as stated: a delete_image call by the owner whose delete_file returned
\* has deleted from storage before deleting the row, the row is gone, the call
\* returns (True, None), and get_image and list_user_images of the owner no
\* longer give the image.
C10_AsStated == OwnerDeleteStorageOk => DeletedForOwner

\* C10 amended: a delete_image call by the owner whose delete_file returned
\* has deleted from storage before the repository delete; if that delete
\* commits, the row is gone, the call returns (True, None), and get_image and
\* list_user_images of the owner no longer give the image; if it raises, the
\* exception leaves delete_image and the row is still in the table.
C10_OwnerDeleteRemoves ==
    OwnerDeleteStorageOk =>
        IF last.db = "ok"
        THEN DeletedForOwner
        ELSE /\ Precedes("s3.delete_file", "repo.delete")
             /\ last.out.kind = "raise"
             /\ last.image \in images

C10_Witness ==
    /\ OwnerDeleteStorageOk
    /\ last.db = "ok"
    /\ last.out = Return(<<TRUE, None>>)
    /\ last.image \notin images
    /\ images # {}

ClientAnswered == ares.op = "analyze" /\ ares.state = "done"

IsClientFallback(out) ==
    /\ out.kind = "return"
    /\ DOMAIN out.val = {"description", "concepts", "error", "using_fallback"}
    /\ out.val.using_fallback = TRUE
    /\ out.val.error # None
    /\ Len(out.val.error.s) > 0
    /\ out.val.description = None
    /\ out.val.concepts = <<>>

\* C11: analyze_image never raises; when is_available is false or neither
\* bytes nor url is given it returns a fallback result (using_fallback true,
\* a non-empty error, description None, no concepts) and has issued no
\* provider request; when the Clarifai client raised, it returns such a
\* fallback result too.
C11_ClientNeverRaises ==
    ClientAnswered =>
        /\ ares.out.kind = "return"
        /\ (~ares.is_available \/ (ares.image_bytes = None /\ ares.image_url = None)) =>
              /\ IsClientFallback(ares.out)
              /\ ares.requests = <<>>
        /\ ares.provider.kind = "raise" => IsClientFallback(ares.out)

C11_Witness ==
    /\ ClientAnswered
    /\ ares.is_available
    /\ ares.provider.kind = "raise"
    /\ ares.requests = <<"predict_by_url">>
    /\ IsClientFallback(ares.out)
    /\ Contains(ares.out.val.error.s, ares.provider.msg)

ClientSucceeded ==
    /\ ClientAnswered
    /\ ares.out.kind = "return"
    /\ "using_fallback" \notin DOMAIN ares.out.val

\* the outputs of the provider's response to the one input sent
Outputs ==
    LET response == ares.provider.response
    IN IF "results" \in DOMAIN response /\ response.results # <<>>
          /\ "outputs" \in DOMAIN response.results[1]
       THEN response.results[1].outputs
       ELSE <<>>

\* the concepts the provider offered, each with the model that gave it
Offered ==
    { [name |-> c.name, value |-> c.value, model |-> m] :
        <<c, m>> \in UNION { { <<Outputs[o].data.concepts[k],
                             IF "model" \in DOMAIN Outputs[o]
                             THEN Outputs[o].model.id ELSE "unknown">> :
                               k \in DOMAIN Outputs[o].data.concepts }
                             : o \in { x \in DOMAIN Outputs :
                                         "concepts" \in DOMAIN Outputs[x].data } } }

\* C12: the concepts of a successful analyze_image result are exactly the
\* concepts the provider offered with a confidence strictly above 0.5 (50
\* hundredths), each once, in descending order of confidence; no concept at
\* 0.5 or below is named in the description.
C12_ConceptsFilteredAndSorted ==
    ClientSucceeded =>
        LET concepts == ares.out.val.concepts
            description == ares.out.val.description
        IN /\ \A i \in DOMAIN concepts : concepts[i] \in Offered /\ concepts[i].value > 50
           /\ \A e \in Offered :
                e.value > 50 => Cardinality({ i \in DOMAIN concepts : concepts[i] = e }) = 1
           /\ \A i, j \in DOMAIN concepts : i < j => concepts[i].value >= concepts[j].value
           /\ \A e \in Offered :
                (e.value <= 50 /\ description # None) =>
                    \A t \in DOMAIN description.s : description.s[t] # e.name

C12_Witness ==
    /\ ClientSucceeded
    /\ \E e \in Offered : e.value = 50
    /\ \E e \in Offered : e.value < 50
    /\ Len(ares.out.val.concepts) >= 3
    /\ Len(Outputs) = 1
    /\ Outputs[1].data.concepts[1].value = 50
    /\ Outputs[1].data.concepts[2].value < Outputs[1].data.concepts[3].value
    /\ ares.out.val.description # None
    /\ Len(ares.out.val.description.s) > 1

\* C13: generate_description names the (at most 5) concepts of highest
\* confidence, in descending order of confidence: None for no concept; "This
\* image appears to be a c1." for one; "This image appears to contain c1 and
\* c2." for two; for n >= 3 "This image appears to contain c1, ..., c(n-1),
\* and cn."; a concept ranked sixth or lower is not named.
C13_DescriptionSynthesis ==
    (ares.op = "describe" /\ ares.state = "done") =>
        LET L == ares.concepts
            n == IF Len(L) < 5 THEN Len(L) ELSE 5
            d == ares.out.val
            \* position i is one of the ranks concept e can take
            RankOk(i, e) ==
                /\ Cardinality({ k \in DOMAIN L : L[k].value > e.value }) < i
                /\ i <= Cardinality({ k \in DOMAIN L : L[k].value >= e.value })
        IN /\ ares.out.kind = "return"
           /\ IF n = 0 THEN d = None
              ELSE /\ d # None
                   /\ Len(d.s) = 2 * n + 1
                   /\ d.s[1] = IF n = 1 THEN "This image appears to be a "
                                        ELSE "This image appears to contain "
                   /\ d.s[2 * n + 1] = "."
                   /\ \A i \in 1 .. n - 1 :
                        d.s[2 * i + 1] = IF i < n - 1 THEN ", "
                                         ELSE IF n = 2 THEN " and " ELSE ", and "
                   /\ \A i \in 1 .. n :
                        \E k \in DOMAIN L : L[k].name = d.s[2 * i] /\ RankOk(i, L[k])
                   /\ \A i, j \in 1 .. n : i < j => d.s[2 * i] # d.s[2 * j]

C13_Witness ==
    /\ ares.op = "describe"
    /\ ares.state = "done"
    /\ Len(ares.concepts) >= 6
    /\ \A k \in DOMAIN ares.concepts : ares.concepts[k].value > 50
    /\ ares.concepts[1].value < ares.concepts[2].value
    /\ ares.out.val # None
    /\ Len(ares.out.val.s) = 11

Absent(v) == v = None \/ v.s = <<>>

LacksInput ==
    CASE sres.strategy = "url" -> Absent(sres.image_url)
      [] sres.strategy = "bytes" -> Absent(sres.image_bytes)
      [] sres.strategy = "fallback" -> Absent(sres.image_url) /\ Absent(sres.image_bytes)
      [] OTHER -> FALSE

\* C14: a strategy run without the input the strategy requires (the URL-only
\* strategy without url, the bytes-only strategy without bytes, the fallback
\* strategy without both) makes no provider call and returns a result with
\* using_fallback true and a non-empty error.
C14_MissingInputNoCall ==
    LacksInput =>
        /\ sres.calls = <<>>
        /\ sres.out.kind = "return"
        /\ "using_fallback" \in DOMAIN sres.out.val
        /\ sres.out.val.using_fallback = TRUE
        /\ "error" \in DOMAIN sres.out.val
        /\ sres.out.val.error # None
        /\ Len(sres.out.val.error.s) > 0

C14_Witness ==
    /\ sres.strategy = "url"
    /\ sres.image_url = None
    /\ sres.image_bytes = FileContent
    /\ sres.calls = <<>>
    /\ sres.out.val.using_fallback

\* C15 as stated: get_presigned_url never raises; whatever the storage
\* backend does while the URL is produced, the caller gets a URL or None.
C15_AsStated ==
    (last.op = "upload" /\ last.presign # NoCall) =>
        /\ last.presign.kind = "return"
        /\ last.presign.val \in {None, PresignedUrl}

PresignFailed ==
    /\ UploadStored
    /\ \/ last.presign.kind = "raise"
       \/ last.presign.val = None

\* C16 as stated: an upload_image call whose upload_file returned and whose
\* get_presigned_url failed still invokes the strategy, which calls the
\* provider with the bytes directly (no call by url); the image is persisted
\* and (image, None) is returned.
C16_AsStated ==
    PresignFailed =>
        /\ InTrace("strategy.analyze")
        /\ InTrace("provider.bytes")
        /\ ~InTrace("provider.url")
        /\ last.out.kind = "return"
        /\ last.out.val[1] # None
        /\ last.out.val[2] = None
        /\ last.out.val[1] \in images

StorageFailed ==
    \/ last.op = "upload" /\ last.upload.kind = "raise"
    \/ last.op = "delete" /\ last.del # NoCall /\ last.del.kind = "raise"

Occurrences(ev) == { i \in DOMAIN last.trace : last.trace[i] = ev }

AnalysisEvents == {"strategy.analyze", "provider.url", "provider.bytes"}

\* C19 as stated: in an upload_image call, get_presigned_url, the strategy
\* and the provider are called only after upload_file has returned; the
\* presign comes before the strategy; the repository's create is issued once
\* when upload_file returned and never otherwise, after the strategy has been
\* invoked and has returned or raised.
C19_AsStated ==
    last.op = "upload" =>
        /\ last.trace[1] = "s3.upload_file"
        /\ Cardinality(Occurrences("s3.upload_file")) = 1
        /\ last.upload.kind = "raise" => Len(last.trace) = 1
        /\ \A i \in Occurrences("strategy.analyze") :
             \E j \in Occurrences("s3.get_presigned_url") : j < i
        /\ \A i \in DOMAIN last.trace :
             last.trace[i] \in {"provider.url", "provider.bytes"} =>
                \E j \in Occurrences("strategy.analyze") : j < i
        /\ Cardinality(Occurrences("repo.create")) =
             IF last.upload.kind = "return" THEN 1 ELSE 0
        /\ \A c \in Occurrences("repo.create") :
             /\ Occurrences("strategy.analyze") # {}
             /\ \A i \in DOMAIN last.trace : last.trace[i] \in AnalysisEvents => i < c

OwnedBy(table, user_id) == { im \in table : im.user_id = user_id }
NotOwnedBy(table, user_id) == { im \in table : im.user_id # user_id }

DeleteNotFound == Return(<<FALSE, Str(<<"Image not found.">>)>>)

\* No call removes or changes a row of another user, or changes the user_id
\* of a row.
OthersUntouched ==
    /\ NotOwnedBy(images', last'.user_id) = NotOwnedBy(images, last'.user_id)
    /\ \A im \in images, im2 \in images' : im.id = im2.id => im.user_id = im2.user_id

\* What get_image and list_user_images return is a function of the caller's
\* own rows; so is what delete_image returns for an id among the caller's own
\* rows (given what storage and database did in the call).
OwnViewOnly ==
    LET own == OwnedBy(images, last'.user_id) IN
    /\ last'.op = "get" =>
         last'.out = Return(IF \E im \in own : im.id = last'.image_id
                            THEN CHOOSE im \in own : im.id = last'.image_id
                            ELSE None)
    /\ last'.op = "list" => last'.out = Return(own)
    /\ (last'.op = "delete" /\ \E im \in own : im.id = last'.image_id) =>
         last'.out = IF last'.del.kind = "raise"
                     THEN Return(<<FALSE, Str(<<"S3 delete failed: ">> \o last'.del.msg)>>)
                     ELSE IF last'.db = "ok" THEN Return(<<TRUE, None>>)
                     ELSE Raise(<<"db commit failed">>)

\* C20 as stated: the result of a get_image, list_user_images or delete_image
\* call by user A is the same in any two tables that differ only in rows of
\* other users, that is: it is the result the call has in the table reduced to
\* A's own rows - for an id that is not among A's rows, delete_image returns
\* what it returns when no row has the id; and no call by A removes or changes
\* a row of another user or changes a row's user_id.
C20_AsStated ==
    [][(last.op = "none" /\ last'.op # "none") =>
         /\ OthersUntouched
         /\ OwnViewOnly
         /\ (last'.op = "delete"
             /\ ~\E im \in OwnedBy(images, last'.user_id) : im.id = last'.image_id) =>
                last'.out = DeleteNotFound]_vars

\* C20 amended: the results of get_image and list_user_images for user A do
\* not depend on rows of other users; the result of delete_image for A depends
\* on them in one way only: for an id that is not among A's rows it is
\* (False, "Unauthorized to delete this image.") when a row of another user
\* has the id and (False, "Image not found.") when no row has it; and no call
\* by A removes or changes a row of another user or changes a row's user_id.
C20_OwnerIsolation ==
    [][(last.op = "none" /\ last'.op # "none") =>
         /\ OthersUntouched
         /\ OwnViewOnly
         /\ (last'.op = "delete"
             /\ ~\E im \in OwnedBy(images, last'.user_id) : im.id = last'.image_id) =>
                last'.out = IF \E im \in images : im.id = last'.image_id
                            THEN Unauthorized
                            ELSE DeleteNotFound]_vars

C20_Witness ==
    /\ last.op = "list"
    /\ last.out.val # {}
    /\ last.out.val # images
    /\ \A im \in last.out.val : im.user_id = last.user_id
    /\ \E im \in images : im.user_id # last.user_id

\* The URL call of a fallback-strategy run returned a result that neither has
\* using_fallback set nor lacks a description.
UrlCallClean ==
    /\ FallbackRun
    /\ sres.calls[1].out.kind = "return"
    /\ ~Get(sres.calls[1].out.val, "using_fallback", FALSE)
    /\ Truthy(Get(sres.calls[1].out.val, "description", None))

UrlCallFlaggedOrEmpty ==
    /\ FallbackRun
    /\ sres.calls[1].out.kind = "return"
    /\ \/ Get(sres.calls[1].out.val, "using_fallback", FALSE)
       \/ ~Truthy(Get(sres.calls[1].out.val, "description", None))

OnlyUrlCallReturned ==
    /\ Len(sres.calls) = 1
    /\ sres.calls[1].by = "url"
    /\ sres.out = sres.calls[1].out

\* C21: in a fallback-strategy run with a url: when the URL call returns a
\* result with using_fallback not set and a non-empty description, the run
\* gives that result unchanged after exactly one provider call (none by
\* bytes), whether bytes were given or not; when the URL call returns a result
\* with using_fallback set or without a description and no bytes were given,
\* the run gives that URL result unchanged after exactly one provider call.
C21_UrlResultReturnedAsIs ==
    /\ UrlCallClean => OnlyUrlCallReturned
    /\ (UrlCallFlaggedOrEmpty /\ ~Truthy(sres.image_bytes)) => OnlyUrlCallReturned

C21_Witness ==
    /\ UrlCallClean
    /\ Truthy(sres.image_bytes)
    /\ OnlyUrlCallReturned

CallsBy(by) == { i \in DOMAIN sres.calls : sres.calls[i].by = by }

\* C23 as stated: one fallback-strategy run with a url makes at most two
\* provider calls, at most one of them by URL and at most one by bytes,
\* whatever the provider's calls return or raise.
C23_AsStated ==
    FallbackRun =>
        /\ Len(sres.calls) <= 2
        /\ Cardinality(CallsBy("url")) <= 1
        /\ Cardinality(CallsBy("bytes")) <= 1

\* C24 as stated: a fallback-strategy run never ends in an exception: when a
\* provider call raised, with a url or with bytes only, the run returns a
\* result with using_fallback set.
C24_AsStated ==
    (/\ sres.strategy = "fallback"
     /\ \E i \in DOMAIN sres.calls : sres.calls[i].out.kind = "raise") =>
        /\ sres.out.kind = "return"
        /\ Get(sres.out.val, "using_fallback", FALSE)

\* the non-empty captions among the outputs of the provider's response
Captions ==
    { Outputs[o].data.text.raw :
        o \in { x \in DOMAIN Outputs :
                  /\ "data" \in DOMAIN Outputs[x]
                  /\ "text" \in DOMAIN Outputs[x].data
                  /\ Truthy(Outputs[x].data.text.raw) } }

\* C22 as stated: an analyze_image call on an available client with bytes or
\* url, whose Workflow object could be built, issues exactly one provider
\* request, by bytes when bytes are given (with or without a url) and by url
\* otherwise; and when the provider answers, the description returned is a
\* non-empty caption of the response when it has one, is synthesized from the
\* kept concepts when it has none and a concept above 0.5 (50 hundredths) was
\* offered, and is absent (None, or at the widest the empty caption) when it
\* has neither.
C22_AsStated ==
    (/\ ClientAnswered
     /\ ares.is_available
     /\ ~(ares.image_bytes = None /\ ares.image_url = None)
     /\ ~(ares.provider.kind = "raise" /\ ares.provider.at = "Workflow")) =>
        /\ ares.requests = << IF ares.image_bytes # None THEN "predict_by_bytes"
                                                         ELSE "predict_by_url" >>
        /\ ares.provider.kind = "response" =>
             LET description == ares.out.val.description
             IN IF Captions # {}
                THEN description \in Captions
                ELSE IF \E e \in Offered : e.value > 50
                THEN description = GenerateDescription(ares.out.val.concepts)
                ELSE Absent(description)

\* C25 as stated: after any sequence of completed upload_image and
\* delete_image calls, whatever storage and persistence operations failed, the
\* bucket and the images table agree: the s3_key of every row names an object
\* in the bucket (no dangling record) and every object in the bucket is the
\* s3_key of a row (no orphaned object).
C25_AsStated ==
    /\ \A im \in images : im.s3_key \in bucket
    /\ \A k \in bucket : \E im \in images : im.s3_key = k

\* The request being answered is a DELETE, with a token issued to a user, for
\* an image that this user uploaded.
OwnerDeletes ==
    /\ http.route = "delete"
    /\ http.token \in IssuedTokens
    /\ last.op = "delete"
    /\ last.image # None
    /\ StrOfInt(last.image.user_id) = GetJwtIdentity(http.token)

\* C26 as stated: a user who uploaded an image with the token issued to them
\* and sends DELETE for that image with the same token passes the ownership
\* check: the service does not answer "Unauthorized to delete this image." and
\* the response is not the 400 that carries this message.
C26_AsStated ==
    OwnerDeletes =>
        /\ last.out # Unauthorized
        /\ ~(http.status = 400 /\ http.body.errors = Unauthorized.val[2])

\* C27 as stated: UserService.register_user returns a triple on every
\* outcome, and a registration whose username or e-mail is already in the
\* users table is answered with status 409 and an error payload, and leaves
\* the table as it was.
C27_AsStated ==
    [][(http.route = "none" /\ http'.route = "register") =>
         /\ (http'.service # NoCall /\ http'.service.kind = "return") =>
               Len(http'.service.val) = 3
         /\ (/\ http'.data.username \in ValidUsernames
             /\ \E u \in users : u.username = http'.data.username
                                 \/ u.email = http'.data.email) =>
               /\ http'.status = 409
               /\ "errors" \in DOMAIN http'.body
               /\ users' = users]_vars

====
